---- MODULE Spec2Model ----
(***************************************************************************)
(* Model of directoryReport(rootDir, reportDir) in                         *)
(* directory_report_generator.py: the committed table                      *)
(* directory_report.csv, the temporary table directory_report_new.csv and  *)
(* the narrative log directory_report.txt, over a sequence of runs.        *)
(*                                                                         *)
(* Cells of the CSV files are text.  A cell is modelled by its text class: *)
(*   Txt(s)  a text that is not the repr of a float (names, dates, '')     *)
(*   Num(h)  the text str(h/100) of a float with two decimals              *)
(* Byte counts are counted in units of 2^27 bytes (1/8 GiB), so that       *)
(* size / 1073741824 and round(.., 2) are computed exactly, ties included. *)
(***************************************************************************)
EXTENDS Integers, Sequences, FiniteSets, TLC

\* ---------------------------------------------------------------- bounds
MaxRuns == 2
MaxHistoryRuns == 3
MaxDirs == 2

\* ---------------------------------------------------------------- cells
Txt(s) == [k |-> "t", s |-> s, n |-> 0]
Num(h) == [k |-> "n", s |-> "", n |-> h]
Empty == Txt("")
DATE == Txt("DATE")
TOTAL == Txt("TOTAL")
\* datetime.date.today().isoformat() of the d-th day
DateCell(d) == [k |-> "d", s |-> "", n |-> d]

\* names of top-level directories the scanned root may hold
Names == {Txt("A"), Txt("B"), DATE, TOTAL}
\* the names among them that no row of the blank spreadsheet carries
PlainNames == {Txt("A"), Txt("B")}
\* the snapshot directory of a filer, and a directory named 0.12
SNAPSHOT == Txt(".snapshot")
OddNames == {Txt("A"), SNAPSHOT, Num(12)}
\* sizes of a directory tree, in units of 2^27 bytes: 0, 0.125 GiB, 1024 GiB
Sizes == {0, 1, 8192}
\* the sizes drawn by the specification of long histories
HistorySizes == {0, 1}

UnitsPerGiB == 8
TiBThreshold == 102400
GiBPerTiB == 1024

\* ---------------------------------------------------------------- rounding
\* Python round(): the integer nearest to num/den (den > 0), ties to even
RoundHalfEven(num, den) ==
  LET q == num \div den
      r == num % den
  IN  IF 2 * r < den THEN q
      ELSE IF 2 * r > den THEN q + 1
      ELSE IF q % 2 = 0 THEN q ELSE q + 1

\* round(size / 1073741824, 2), as hundredths of a GiB
SizeGib(size) == RoundHalfEven(size * 100, UnitsPerGiB)

\* round(x / 1024, 2) of a value given in hundredths
ToTib(h) == RoundHalfEven(h, GiBPerTiB)

\* round((currentSize - lastSize) / lastSize * 100, 2), as hundredths of a percent
GrowthPercent(cur, last) == RoundHalfEven((cur - last) * 10000, last)

\* ---------------------------------------------------------------- files
NoFile == [exists |-> FALSE, rows |-> <<>>]
File(rows) == [exists |-> TRUE, rows |-> rows]
\* open(path, 'a') followed by writes: creates the file when it is missing
AppendRows(f, rows) == File(f.rows \o rows)

\* the file written by lines 55-57: 'DATE\nTOTAL'
BlankSpreadsheet == File(<< <<DATE>>, <<TOTAL>> >>)

Range(s) == {s[i] : i \in 1..Len(s)}
LastCell(row) == row[Len(row)]
PrevCell(row) == row[Len(row) - 1]

\* a faulty PadRow: gaps filled with the value 0.0 instead of the empty cell
PadRowZero(row, n) ==
  IF Len(row) < n THEN row \o [j \in 1..(n - Len(row)) |-> Num(0)] ELSE row

\* while len(row) < zeroSheetLength: row.append('')
PadRow(row, n) ==
  IF Len(row) < n THEN row \o [j \in 1..(n - Len(row)) |-> Empty] ELSE row

\* ---------------------------------------------------------------- merge
\* a faulty NewRow: the row of a known folder is extended without padding
NewRowUnpadded(folder, size_gib, prevRows, prevNames, zeroSheetLength) ==
  IF folder \in Range(prevNames)
  THEN LET hits == SelectSeq(prevRows, LAMBDA r : r[1] = folder)
       IN  Append(hits[Len(hits)], Num(size_gib))
  ELSE Append(PadRow(<<folder>>, zeroSheetLength), Num(size_gib))

\* lines 99-118: the row written for a scanned folder
NewRow(folder, size_gib, prevRows, prevNames, zeroSheetLength) ==
  IF folder \in Range(prevNames)
  THEN LET hits == SelectSeq(prevRows, LAMBDA r : r[1] = folder)
       IN  Append(PadRow(hits[Len(hits)], zeroSheetLength), Num(size_gib))
  ELSE Append(PadRow(<<folder>>, zeroSheetLength), Num(size_gib))

\* lines 126-140: rows of folders not in the scan, and the TOTAL row
CarriedRows(prevRows, dirs, total) ==
  LET kept == SelectSeq(prevRows,
                LAMBDA r : r[1] \notin Range(dirs) /\ r[1] # DATE)
  IN  [i \in 1..Len(kept) |->
         IF kept[i][1] = TOTAL
         THEN Append(kept[i], Num(SizeGib(total)))
         ELSE kept[i]]

\* ---------------------------------------------------------------- narrative
Line(name, tag, size, unit, delta, dunit, hasPct, pct) ==
  [name |-> name, tag |-> tag, size |-> size, unit |-> unit,
   delta |-> delta, dunit |-> dunit, hasPct |-> hasPct, pct |-> pct]
\* output.write('\n') of the TOTAL row
BlankLine == Line(TOTAL, "blank", 0, "", 0, "", FALSE, 0)

\* float(cell) raises ValueError unless the cell is the text of a float
IsFloat(c) == c.k = "n"

Ok(lines) == [err |-> FALSE, out |-> lines]
ValueError == [err |-> TRUE, out |-> <<>>]

\* lines 169-179: a row shorter than the header
ShortRowReport(row, sheetLength) ==
  IF Len(row) = sheetLength - 1
  THEN IF ~IsFloat(LastCell(row)) THEN ValueError
       ELSE LET lastSize == LastCell(row).n
                growth_gib == 0 - lastSize
                growth_tib == ToTib(growth_gib)
            IN  IF lastSize < TiBThreshold
                THEN Ok(<<Line(row[1], "removed", 0, "", growth_gib, "GiB", FALSE, 0)>>)
                ELSE Ok(<<Line(row[1], "removed", 0, "", growth_tib, "TiB", FALSE, 0)>>)
  ELSE Ok(<<>>)

\* lines 188-205: a full row whose current size is 0
ZeroRowReport(row, sheetLength) ==
  LET currentSize == LastCell(row).n
      name == row[1]
  IN  IF sheetLength = 2
      THEN Ok(<<Line(name, "bare", currentSize, "GiB", 0, "", FALSE, 0)>>)
      ELSE IF PrevCell(row) = Empty
      THEN Ok(<<Line(name, "new", currentSize, "GiB", 0, "", FALSE, 0)>>)
      ELSE IF ~IsFloat(PrevCell(row)) THEN ValueError
      ELSE LET lastSize == PrevCell(row).n
               growth_gib == currentSize - lastSize
           IN  IF currentSize = lastSize
               THEN Ok(<<Line(name, "nochange", currentSize, "GiB", 0, "", FALSE, 0)>>)
               ELSE IF growth_gib < TiBThreshold
               THEN Ok(<<Line(name, "change", currentSize, "GiB", growth_gib, "GiB", FALSE, 0)>>)
               ELSE Ok(<<Line(name, "change", currentSize, "TiB", ToTib(growth_gib), "GiB", FALSE, 0)>>)

\* lines 217-248: a full row with a positive size and a previous cell
ChangedRowReport(row) ==
  LET name == row[1]
      currentSize == LastCell(row).n
      currentSize_tib == ToTib(currentSize)
      lastSize == PrevCell(row).n
      growth_gib == currentSize - lastSize
      growth_tib == ToTib(growth_gib)
  IN  IF currentSize = lastSize
      THEN IF currentSize <= TiBThreshold
           THEN Ok(<<Line(name, "nochange", currentSize, "GiB", 0, "", FALSE, 0)>>)
           ELSE Ok(<<Line(name, "nochange", currentSize_tib, "TiB", 0, "", FALSE, 0)>>)
      ELSE IF lastSize # 0
      THEN LET growthPercent == GrowthPercent(currentSize, lastSize)
           IN  IF growth_gib < TiBThreshold
               THEN IF currentSize < TiBThreshold
                    THEN Ok(<<Line(name, "change", currentSize, "GiB", growth_gib, "GiB", TRUE, growthPercent)>>)
                    ELSE Ok(<<Line(name, "change", currentSize_tib, "TiB", growth_gib, "GiB", TRUE, growthPercent)>>)
               ELSE IF currentSize < TiBThreshold
                    THEN Ok(<<Line(name, "change", currentSize, "GiB", growth_tib, "TiB", TRUE, growthPercent)>>)
                    ELSE Ok(<<Line(name, "change", currentSize_tib, "TiB", growth_tib, "TiB", TRUE, growthPercent)>>)
      ELSE IF growth_gib < TiBThreshold
           THEN Ok(<<Line(name, "change", currentSize, "GiB", growth_gib, "GiB", FALSE, 0)>>)
           ELSE Ok(<<Line(name, "change", currentSize, "TiB", growth_tib, "GiB", FALSE, 0)>>)

\* a faulty PositiveRowReport: the test for the first report is missing
PositiveRowReportNoFirst(row, sheetLength) ==
  LET name == row[1]
      currentSize == LastCell(row).n
      currentSize_tib == ToTib(currentSize)
  IN  IF PrevCell(row) = Empty
      THEN IF currentSize < TiBThreshold
           THEN Ok(<<Line(name, "new", currentSize, "GiB", 0, "", FALSE, 0)>>)
           ELSE Ok(<<Line(name, "new", currentSize_tib, "TiB", 0, "", FALSE, 0)>>)
      ELSE IF PrevCell(row) # row[1]
      THEN IF ~IsFloat(PrevCell(row)) THEN ValueError ELSE ChangedRowReport(row)
      ELSE Ok(<<>>)

\* lines 206-248: a full row whose current size is positive
PositiveRowReport(row, sheetLength) ==
  LET name == row[1]
      currentSize == LastCell(row).n
      currentSize_tib == ToTib(currentSize)
  IN  IF PrevCell(row) = Empty
      THEN IF currentSize < TiBThreshold
           THEN Ok(<<Line(name, "new", currentSize, "GiB", 0, "", FALSE, 0)>>)
           ELSE Ok(<<Line(name, "new", currentSize_tib, "TiB", 0, "", FALSE, 0)>>)
      ELSE IF sheetLength = 2
      THEN IF currentSize < TiBThreshold
           THEN Ok(<<Line(name, "bare", currentSize, "GiB", 0, "", FALSE, 0)>>)
           ELSE Ok(<<Line(name, "bare", currentSize_tib, "TiB", 0, "", FALSE, 0)>>)
      ELSE IF PrevCell(row) # row[1]
      THEN IF ~IsFloat(PrevCell(row)) THEN ValueError ELSE ChangedRowReport(row)
      ELSE Ok(<<>>)

\* lines 169-248: what one row of the committed table adds to the block
ClassifyRow(row, sheetLength) ==
  IF Len(row) < sheetLength THEN ShortRowReport(row, sheetLength)
  ELSE IF ~IsFloat(LastCell(row)) THEN ValueError
  ELSE IF LastCell(row).n = 0 THEN ZeroRowReport(row, sheetLength)
  ELSE IF LastCell(row).n > 0 THEN PositiveRowReport(row, sheetLength)
  ELSE Ok(<<>>)

\* lines 158-248: the lines of one row, the TOTAL row's '\n' first
RowReport(row, sheetLength) ==
  LET r == ClassifyRow(row, sheetLength)
  IN  IF row[1] = TOTAL THEN [err |-> r.err, out |-> <<BlankLine>> \o r.out] ELSE r

\* lines 156-248: the rows after the header, up to the first ValueError
RECURSIVE ReportRows(_, _, _, _)
ReportRows(rows, i, sheetLength, acc) ==
  IF i > Len(rows) THEN [err |-> FALSE, out |-> acc]
  ELSE LET r == RowReport(rows[i], sheetLength)
       IN  IF r.err THEN [err |-> TRUE, out |-> acc \o r.out]
           ELSE ReportRows(rows, i + 1, sheetLength, acc \o r.out)

\* lines 151-251: the block appended to directory_report.txt; closed is
\* FALSE when a ValueError ended the block before its last rule line
ReportBlock(rows, sheetLength, day) ==
  LET r == ReportRows(rows, 2, sheetLength, <<>>)
  IN  [date |-> DateCell(day), lines |-> r.out, closed |-> ~r.err]

\* ---------------------------------------------------------------- state
VARIABLES
  csv1,         \* directory_report.csv, the committed table
  csv2,         \* directory_report_new.csv, the temporary table
  txt,          \* directory_report.txt, a sequence of blocks
  pc,           \* position of the running directoryReport call, "idle" if none
  runs,         \* calls of directoryReport started so far; the day of the run
  directories,  \* line 60
  prevList,     \* line 73
  sheetLength,  \* line 78
  total_size,   \* line 70, in units of 2^27 bytes
  idx,          \* position of the loop of line 89 in directories
  sizes,        \* the sizes measured by the loop of line 89 so far
  preTable,     \* history variable: csv1 when the current or last run started
  preTemp,      \* history variable: csv2 when the current or last run started
  history,      \* history variable: the scans of the runs that committed
  crashed,      \* history variable: some run so far was interrupted or raised
  crashAt       \* history variable: where the last run was interrupted, or ""

vars == <<csv1, csv2, txt, pc, runs, directories, prevList, sheetLength,
          total_size, idx, sizes, preTable, preTemp, history, crashed, crashAt>>

locals == <<directories, prevList, sheetLength, total_size, idx, sizes>>
ghosts == <<preTable, preTemp, history, crashed, crashAt>>

\* os.listdir(rootDir) filtered by isdir: distinct names in any order
DirLists(nameSet) ==
  {s \in UNION {[1..n -> nameSet] : n \in 0..MaxDirs} :
     \A i, j \in 1..Len(s) : i # j => s[i] # s[j]}

ResetLocals ==
  /\ directories' = <<>>
  /\ prevList' = <<>>
  /\ sheetLength' = 0
  /\ total_size' = 0
  /\ idx' = 0
  /\ sizes' = <<>>

Init ==
  /\ csv1 = NoFile
  /\ csv2 = NoFile
  /\ txt = <<>>
  /\ pc = "idle"
  /\ runs = 0
  /\ directories = <<>>
  /\ prevList = <<>>
  /\ sheetLength = 0
  /\ total_size = 0
  /\ idx = 0
  /\ sizes = <<>>
  /\ preTable = NoFile
  /\ preTemp = NoFile
  /\ history = <<>>
  /\ crashed = FALSE
  /\ crashAt = ""

\* lines 53-57: create the blank spreadsheet when there is no committed table
Start(maxRuns) ==
  /\ pc = "idle"
  /\ runs < maxRuns
  /\ runs' = runs + 1
  /\ csv1' = IF csv1.exists THEN csv1 ELSE BlankSpreadsheet
  /\ preTable' = csv1
  /\ preTemp' = csv2
  /\ crashAt' = ""
  /\ pc' = "started"
  /\ UNCHANGED <<csv2, txt, locals, history, crashed>>

\* lines 60-64: the top-level directories of the root
ListDirs(nameSet) ==
  /\ pc = "started"
  /\ \E dirs \in DirLists(nameSet) : directories' = dirs
  /\ pc' = "listed"
  /\ UNCHANGED <<csv1, csv2, txt, runs, prevList, sheetLength, total_size,
                 idx, sizes, ghosts>>

\* a faulty ReadHeader: the new header row is appended to the committed table
ReadHeaderInPlace ==
  /\ pc = "listed"
  /\ total_size' = 0
  /\ prevList' = [i \in 1..Len(csv1.rows) |-> csv1.rows[i][1]]
  /\ LET row == Append(csv1.rows[1], DateCell(runs))
     IN  /\ sheetLength' = Len(row)
         /\ csv1' = AppendRows(csv1, <<row>>)
  /\ idx' = 1
  /\ pc' = "scan"
  /\ UNCHANGED <<csv2, txt, runs, directories, sizes, ghosts>>

\* lines 70-83: prevList, sheetLength and the new header row
ReadHeader ==
  /\ pc = "listed"
  /\ total_size' = 0
  /\ prevList' = [i \in 1..Len(csv1.rows) |-> csv1.rows[i][1]]
  /\ LET row == Append(csv1.rows[1], DateCell(runs))
     IN  /\ sheetLength' = Len(row)
         /\ csv2' = AppendRows(csv2, <<row>>)
  /\ idx' = 1
  /\ pc' = "scan"
  /\ UNCHANGED <<csv1, txt, runs, directories, sizes, ghosts>>

\* lines 89-121: measure one folder and write its row
ScanFolder(sizeSet) ==
  /\ pc = "scan"
  /\ idx <= Len(directories)
  /\ \E size \in sizeSet :
       /\ total_size' = total_size + size
       /\ sizes' = Append(sizes, size)
       /\ csv2' = AppendRows(csv2,
                    <<NewRow(directories[idx], SizeGib(size), csv1.rows,
                             prevList, sheetLength - 1)>>)
  /\ idx' = idx + 1
  /\ UNCHANGED <<csv1, txt, pc, runs, directories, prevList, sheetLength, ghosts>>

\* lines 126-140: carry the other rows forward and write the TOTAL row
CarryForward ==
  /\ pc = "scan"
  /\ idx > Len(directories)
  /\ csv2' = AppendRows(csv2, CarriedRows(csv1.rows, directories, total_size))
  /\ pc' = "carried"
  /\ UNCHANGED <<csv1, txt, runs, locals, ghosts>>

\* line 143: os.remove(csvPath1)
RemovePrev ==
  /\ pc = "carried"
  /\ csv1' = NoFile
  /\ pc' = "removed"
  /\ UNCHANGED <<csv2, txt, runs, locals, ghosts>>

\* line 144: os.rename(csvPath2, csvPath1)
RenameNew ==
  /\ pc = "removed"
  /\ csv1' = csv2
  /\ csv2' = NoFile
  /\ history' = Append(history, [dirs |-> directories, sizes |-> sizes])
  /\ pc' = "renamed"
  /\ UNCHANGED <<txt, runs, locals, preTable, preTemp, crashed, crashAt>>

\* a faulty WriteReport: the log is opened for writing, not for appending
WriteReportTruncating ==
  /\ pc = "renamed"
  /\ LET block == ReportBlock(csv1.rows, sheetLength, runs)
     IN  /\ txt' = <<block>>
         /\ crashed' = (crashed \/ ~block.closed)
  /\ pc' = "idle"
  /\ ResetLocals
  /\ UNCHANGED <<csv1, csv2, runs, preTable, preTemp, history, crashAt>>

\* lines 151-251: append the narrative block; a ValueError ends the run
WriteReport ==
  /\ pc = "renamed"
  /\ LET block == ReportBlock(csv1.rows, sheetLength, runs)
     IN  /\ txt' = Append(txt, block)
         /\ crashed' = (crashed \/ ~block.closed)
  /\ pc' = "idle"
  /\ ResetLocals
  /\ UNCHANGED <<csv1, csv2, runs, preTable, preTemp, history, crashAt>>

\* the process stops (killed, or an I/O error raised) between two steps
Crash ==
  /\ pc # "idle"
  /\ pc' = "idle"
  /\ crashed' = TRUE
  /\ crashAt' = pc
  /\ ResetLocals
  /\ UNCHANGED <<csv1, csv2, txt, runs, preTable, preTemp, history>>

\* line 61: os.listdir(rootDir) raises FileNotFoundError, the root is missing
RootMissing ==
  /\ pc = "started"
  /\ pc' = "idle"
  /\ crashed' = TRUE
  /\ crashAt' = "rootMissing"
  /\ ResetLocals
  /\ UNCHANGED <<csv1, csv2, txt, runs, preTable, preTemp, history>>

Next ==
  \/ Start(MaxRuns)
  \/ ListDirs(Names)
  \/ RootMissing
  \/ ReadHeader
  \/ ScanFolder(Sizes)
  \/ CarryForward
  \/ RemovePrev
  \/ RenameNew
  \/ WriteReport
  \/ Crash

\* runs that may be interrupted at any step
Spec == Init /\ [][Next]_vars

NextHistory ==
  \/ Start(MaxHistoryRuns)
  \/ ListDirs(Names)
  \/ ReadHeader
  \/ ScanFolder(HistorySizes)
  \/ CarryForward
  \/ RemovePrev
  \/ RenameNew
  \/ WriteReport

\* longer histories of runs that are not interrupted from outside
SpecHistory == Init /\ [][NextHistory]_vars

NextPlain ==
  \/ Start(MaxHistoryRuns)
  \/ ListDirs(PlainNames)
  \/ ReadHeader
  \/ ScanFolder(Sizes)
  \/ CarryForward
  \/ RemovePrev
  \/ RenameNew
  \/ WriteReport

\* longer histories of uninterrupted runs over roots whose directories are
\* not named DATE or TOTAL
SpecPlain == Init /\ [][NextPlain]_vars

NextNames ==
  \/ Start(MaxRuns)
  \/ ListDirs(OddNames)
  \/ ReadHeader
  \/ ScanFolder(Sizes)
  \/ CarryForward
  \/ RemovePrev
  \/ RenameNew
  \/ WriteReport

\* uninterrupted runs over roots that hold a directory named .snapshot or a
\* directory whose name is the text of a size
SpecNames == Init /\ [][NextNames]_vars

\* ---------------------------------------------------------------- reading the state
\* every run started so far ran to its end without being interrupted or raising
Completed == pc = "idle" /\ ~crashed /\ runs > 0

\* the rows of directories: the rows after the header that are not named TOTAL
DirRows(rows) == {i \in 2..Len(rows) : rows[i][1] # TOTAL}
TotalRows(rows) == {i \in 2..Len(rows) : rows[i][1] = TOTAL}

\* the value stored at column j of a row; an empty or missing cell counts as 0
CellValue(row, j) == IF j <= Len(row) /\ IsFloat(row[j]) THEN row[j].n ELSE 0

RECURSIVE SumCells(_, _, _)
SumCells(rows, is, j) ==
  IF is = {} THEN 0
  ELSE LET i == CHOOSE x \in is : TRUE
       IN  CellValue(rows[i], j) + SumCells(rows, is \ {i}, j)

ColumnSum(rows, j) == SumCells(rows, DirRows(rows), j)

\* the table a run commits from the committed table pre and its scan,
\* lines 71-140 with an empty temporary file
MergedRows(pre, dirs, szs, day) ==
  LET prev == IF pre.exists THEN pre.rows ELSE BlankSpreadsheet.rows
      names == [i \in 1..Len(prev) |-> prev[i][1]]
      zero == Len(prev[1])
  IN  <<Append(prev[1], DateCell(day))>>
      \o [i \in 1..Len(dirs) |-> NewRow(dirs[i], SizeGib(szs[i]), prev, names, zero)]
      \o CarriedRows(prev, dirs, LET RECURSIVE Sum(_)
                                     Sum(n) == IF n = 0 THEN 0 ELSE szs[n] + Sum(n - 1)
                                 IN  Sum(Len(szs)))

\* directory d was in the scan of the r-th run, and the size measured for it
InScan(r, d) == d \in Range(history[r].dirs)
SizeIn(r, d) ==
  LET i == CHOOSE x \in 1..Len(history[r].dirs) : history[r].dirs[x] = d
  IN  history[r].sizes[i]

\* the number of most recent consecutive scans that did not hold d
Missed(d) ==
  LET seen == {r \in 1..Len(history) : InScan(r, d)}
  IN  IF seen = {} THEN Len(history)
      ELSE Len(history) - (CHOOSE r \in seen : \A q \in seen : q <= r)

\* the lines of the r-th narrative block written for the row named d
LinesOf(r, d) == SelectSeq(txt[r].lines, LAMBDA l : l.name = d /\ l.tag # "blank")

\* ---------------------------------------------------------------- claims

\* C1: after completed runs, in every data column of the committed table the
\* TOTAL row's cell equals the sum of the directory rows' cells of that column,
\* an empty or missing cell counting as 0.
C1_TotalIsSumOfCells ==
  Completed =>
    \A i \in TotalRows(csv1.rows) : \A j \in 2..Len(csv1.rows[1]) :
      CellValue(csv1.rows[i], j) = ColumnSum(csv1.rows, j)

\* C2: after n completed runs, the cell at column j of a directory row is the
\* rounded GiB size measured for the directory in the j-th run when that scan
\* held it and an empty cell otherwise, and a directory of the latest scan has
\* its new value under the new date of the header.
C2_ColumnsAlignedWithHistory ==
  Completed =>
    /\ Len(history) = runs
    /\ csv1.rows[1][Len(csv1.rows[1])] = DateCell(runs)
    /\ \A i \in DirRows(csv1.rows) :
         LET row == csv1.rows[i]
             d == row[1]
         IN  /\ Len(row) <= runs + 1
             /\ \A j \in 2..Len(row) :
                  IF InScan(j - 1, d)
                  THEN row[j] = Num(SizeGib(SizeIn(j - 1, d)))
                  ELSE row[j] = Empty
             /\ InScan(runs, d) => Len(row) = Len(csv1.rows[1])

\* C2 witness: a directory measured, then missed by one scan, then measured
\* again has the row name, value, empty cell, value
C2_Witness ==
  /\ Completed
  /\ \E i \in DirRows(csv1.rows) :
       /\ Len(csv1.rows[i]) = 4
       /\ IsFloat(csv1.rows[i][2])
       /\ csv1.rows[i][3] = Empty
       /\ IsFloat(csv1.rows[i][4])

\* C3: a completed run makes the header one cell longer, keeps exactly one row
\* for every directory name that had a row before it, and leaves every cell
\* such a row held unchanged at the same column.
C3_HistoryOnlyExtended ==
  (Completed /\ preTable.exists) =>
    /\ Len(csv1.rows[1]) = Len(preTable.rows[1]) + 1
    /\ \A p \in DirRows(preTable.rows) :
         LET old == preTable.rows[p]
             now == {i \in DirRows(csv1.rows) : csv1.rows[i][1] = old[1]}
         IN  /\ Cardinality(now) = 1
             /\ \A i \in now :
                  /\ Len(csv1.rows[i]) >= Len(old)
                  /\ \A j \in 1..Len(old) : csv1.rows[i][j] = old[j]

\* C4: after completed runs, a directory row is shorter than the header by
\* the number of most recent consecutive scans that did not hold the directory.
C4_RowShortByMissedScans ==
  Completed =>
    \A i \in DirRows(csv1.rows) :
      Len(csv1.rows[1]) - Len(csv1.rows[i]) = Missed(csv1.rows[i][1])

\* C4 witness: a directory last seen two scans ago, its row two cells short
C4_Witness ==
  /\ Completed
  /\ \E i \in DirRows(csv1.rows) :
       /\ Missed(csv1.rows[i][1]) = 2
       /\ Len(csv1.rows[i]) = 2

\* C5: while a run that found a committed table has not reached the replace
\* step, also after it was interrupted there, directory_report.csv holds the
\* complete pre-run table.
C5_CommittedTableIntactBeforeReplace ==
  (preTable.exists /\
   (pc \in {"started", "listed", "scan", "carried"} \/
    (pc = "idle" /\ crashAt \in {"started", "listed", "scan", "carried"})))
  => csv1 = preTable

\* C5 witness: a run interrupted in the middle of its scan, with merged rows in
\* the temporary file and the committed table of the run before still in place
C5_Witness ==
  /\ pc = "idle"
  /\ crashAt = "scan"
  /\ preTable.exists
  /\ Len(preTable.rows) > 2
  /\ csv2.exists
  /\ Len(csv2.rows) > 1

\* C6: when the process stops within the replace step, directory_report.csv
\* still exists with the pre-run content.
C6_ReplaceFailureKeepsPriorTable ==
  (preTable.exists /\ pc = "idle" /\ crashAt = "removed") => csv1 = preTable

\* C7: a run that starts with a stale directory_report_new.csv commits the table
\* it would commit from the same committed table and scan without the stale file.
C7_StaleTempIgnored ==
  (pc = "renamed" /\ preTemp.exists) =>
    csv1.rows = MergedRows(preTable, directories, sizes, runs)

\* C8: after a merge the rows are the header, the rows of the directories that
\* had a row before in their previous order, the rows of the directories first
\* seen in this scan in scan order, and the TOTAL row.
C8_RowOrder ==
  Completed =>
    LET prev == IF preTable.exists THEN preTable.rows ELSE BlankSpreadsheet.rows
        old == [i \in 1..Len(prev) |-> prev[i][1]]
        oldDirs == SelectSeq(old, LAMBDA n : n # DATE /\ n # TOTAL)
        scan == history[Len(history)].dirs
        new == SelectSeq(scan, LAMBDA n : n \notin Range(old))
    IN  [i \in 1..Len(csv1.rows) |-> csv1.rows[i][1]]
          = <<DATE>> \o oldDirs \o new \o <<TOTAL>>

\* C9: the first run that misses a directory reports it removed, once, with
\* 0 minus its last size in GiB below 1024 and in TiB from 1024 on; later runs
\* that miss it write no line for it; the run that finds it again tags it new.
C9_RemovedReportedOnce ==
  Completed =>
    \A r \in 2..Len(history) : \A d \in Names :
      (\E q \in 1..(r - 1) : InScan(q, d)) =>
        LET ls == LinesOf(r, d)
        IN  /\ (InScan(r - 1, d) /\ ~InScan(r, d)) =>
                 LET last == SizeGib(SizeIn(r - 1, d))
                 IN  ls = IF last < TiBThreshold
                          THEN <<Line(d, "removed", 0, "", 0 - last, "GiB", FALSE, 0)>>
                          ELSE <<Line(d, "removed", 0, "", ToTib(0 - last), "TiB", FALSE, 0)>>
            /\ (~InScan(r - 1, d) /\ ~InScan(r, d)) => ls = <<>>
            /\ (~InScan(r - 1, d) /\ InScan(r, d)) =>
                 (Len(ls) = 1 /\ ls[1].tag = "new")

\* C10: the line of a scanned directory whose previous cell is a value that
\* differs from the current one reports the change, with the percentage
\* (current - previous) / previous x 100 exactly when the previous value is
\* not 0.
C10_PercentIffPreviousNonZero ==
  (Completed /\ runs >= 2) =>
    \A i \in DirRows(csv1.rows) :
      LET row == csv1.rows[i]
      IN  (/\ Len(row) = Len(csv1.rows[1])
           /\ IsFloat(LastCell(row))
           /\ IsFloat(PrevCell(row))
           /\ LastCell(row) # PrevCell(row)) =>
            LET ls == LinesOf(Len(txt), row[1])
                cur == LastCell(row).n
                last == PrevCell(row).n
            IN  /\ Len(ls) = 1
                /\ ls[1].tag = "change"
                /\ ls[1].hasPct = (last # 0)
                /\ last # 0 => ls[1].pct = GrowthPercent(cur, last)

\* C11: a line that reports the change between the previous and the current
\* value shows it in TiB (the GiB value / 1024) exactly when the magnitude of
\* the change is 1024 GiB or more, growth and shrinkage alike, else in GiB.
C11_ChangeUnitByMagnitude ==
  Completed =>
    \A r \in 2..Len(history) : \A d \in Range(history[r - 1].dirs) :
      LET last == SizeGib(SizeIn(r - 1, d))
          cur == IF InScan(r, d) THEN SizeGib(SizeIn(r, d)) ELSE 0
          growth == cur - last
          big == growth >= TiBThreshold \/ 0 - growth >= TiBThreshold
          ls == LinesOf(r, d)
      IN  \A k \in 1..Len(ls) :
            ls[k].tag \in {"change", "removed"} =>
              /\ ls[k].dunit = IF big THEN "TiB" ELSE "GiB"
              /\ ls[k].delta = IF big THEN ToTib(growth) ELSE growth

\* C12: a line of a directory of the current scan shows the current size in
\* TiB (the GiB value / 1024) exactly when it is 1024 GiB or more, else in GiB.
C12_SizeUnitByMagnitude ==
  Completed =>
    \A r \in 1..Len(history) : \A d \in Range(history[r].dirs) :
      LET cur == SizeGib(SizeIn(r, d))
          ls == LinesOf(r, d)
      IN  \A k \in 1..Len(ls) :
            /\ ls[k].unit = IF cur >= TiBThreshold THEN "TiB" ELSE "GiB"
            /\ ls[k].size = IF cur >= TiBThreshold THEN ToTib(cur) ELSE cur

\* C13: a top-level directory named .snapshot is not scanned: it gets no row
\* and its bytes are not counted in the TOTAL cell of the run.
C13_SnapshotExcluded ==
  Completed =>
    /\ \A i \in 2..Len(csv1.rows) : csv1.rows[i][1] # SNAPSHOT
    /\ \A i \in TotalRows(csv1.rows) :
         LET scan == history[Len(history)]
             counted == {k \in 1..Len(scan.dirs) : scan.dirs[k] # SNAPSHOT}
             RECURSIVE Bytes(_)
             Bytes(ks) == IF ks = {} THEN 0
                          ELSE LET k == CHOOSE x \in ks : TRUE
                               IN  scan.sizes[k] + Bytes(ks \ {k})
         IN  LastCell(csv1.rows[i]) = Num(SizeGib(Bytes(counted)))

\* C14: a run whose root path does not exist creates and modifies no file of
\* the output directory.
C14_MissingRootTouchesNothing ==
  (pc = "idle" /\ crashAt = "rootMissing") =>
    /\ csv1 = preTable
    /\ csv2 = preTemp

\* C15: two consecutive runs on an unchanged tree give two adjacent columns
\* with the same value in every row, and the second block classifies every
\* directory as no change.
C15_UnchangedTreeNoChange ==
  (Completed /\ Len(history) >= 2
     /\ history[Len(history)] = history[Len(history) - 1]) =>
    /\ \A i \in 2..Len(csv1.rows) :
         Len(csv1.rows[i]) = Len(csv1.rows[1]) =>
           LastCell(csv1.rows[i]) = PrevCell(csv1.rows[i])
    /\ \A d \in Range(history[Len(history)].dirs) :
         LET ls == LinesOf(Len(history), d)
         IN  Len(ls) = 1 /\ ls[1].tag = "nochange"

\* C16: the first run on an output directory without files commits a header
\* of DATE and the run date, rows of one value each, the TOTAL row included,
\* and writes one bare size line per row.
C16_FirstRunBareSizes ==
  (Completed /\ runs = 1) =>
    LET rows == csv1.rows
        ls == SelectSeq(txt[1].lines, LAMBDA l : l.tag # "blank")
    IN  /\ rows[1] = <<DATE, DateCell(1)>>
        /\ TotalRows(rows) # {}
        /\ \A i \in 2..Len(rows) : Len(rows[i]) = 2 /\ IsFloat(rows[i][2])
        /\ Len(ls) = Len(rows) - 1
        /\ \A k \in 1..Len(ls) :
             /\ ls[k].tag = "bare"
             /\ ls[k].name = rows[k + 1][1]
             /\ ~ls[k].hasPct
             /\ ls[k].dunit = ""

\* C16 witness: a first run over two directories, one of 1024 GiB
C16_Witness ==
  /\ Completed
  /\ runs = 1
  /\ Len(csv1.rows) = 4
  /\ \E i \in DirRows(csv1.rows) : csv1.rows[i][2] = Num(TiBThreshold)
  /\ \E k \in 1..Len(txt[1].lines) : txt[1].lines[k].unit = "TiB"

\* C17: the log only grows, by one block per run, written after the merged
\* table has replaced the committed one and from its rows; a run that stops
\* before the replace appends nothing.
C17_LogAppendOnlyAfterCommit ==
  /\ [](Completed => (Len(txt) = runs /\ \A r \in 1..Len(txt) : txt[r].closed))
  /\ [][txt' # txt =>
          /\ pc = "renamed"
          /\ csv1.exists
          /\ ~csv2.exists
          /\ csv1' = csv1
          /\ Len(txt') = Len(txt) + 1
          /\ SubSeq(txt', 1, Len(txt)) = txt
          /\ txt'[Len(txt')].date = DateCell(runs)
          /\ txt'[Len(txt')].lines = ReportRows(csv1.rows, 2, sheetLength, <<>>).out]_vars

\* C17 witness: two completed runs, two blocks in the log
C17_Witness ==
  /\ Completed
  /\ runs = 2
  /\ Len(txt) = 2
  /\ Len(txt[2].lines) > 2

\* C18: every directory row as long as the header gives exactly one line of
\* the run's block, in table order.
C18_OneLinePerScannedRow ==
  Completed =>
    LET rows == csv1.rows
        full == SelectSeq([i \in 1..(Len(rows) - 1) |-> rows[i + 1]],
                          LAMBDA r : r[1] # TOTAL /\ Len(r) = Len(rows[1]))
        ls == SelectSeq(txt[Len(txt)].lines,
                        LAMBDA l : l.tag \notin {"blank", "removed"} /\ l.name # TOTAL)
    IN  [k \in 1..Len(ls) |-> ls[k].name] = [k \in 1..Len(full) |-> full[k][1]]

\* C19: a run whose root holds a directory named DATE or TOTAL fails before
\* it replaces the committed table.
C19_ReservedNamesNotCommitted ==
  (DATE \in Range(directories) \/ TOTAL \in Range(directories)) => pc # "renamed"

====
